---- MODULE Spec2Model ----
(***************************************************************************)
(* Model of the crust client library (SOVLOOKUP/crust).                    *)
(*                                                                         *)
(* One submission is followed from the call of a facade operation to the   *)
(* settlement of the promise it returns:                                   *)
(*   call -> await isReadyOrError -> decode / validate -> send ->          *)
(*   status callbacks and a possible transport error.                      *)
(* The chain transport (ApiPromise) is the environment: it decides whether *)
(* readiness succeeds, which status updates it delivers and whether the    *)
(* broadcast fails.                                                        *)
(***************************************************************************)
EXTENDS Naturals, Sequences, FiniteSets, TLC

\* ------------------------------------------------------------------ bounds
\* longest event list carried by one status update
MaxEvents == 3
\* number of status updates the transport delivers to one submission
MaxUpdates == 3
\* number of ApiPromise objects one connection manager creates
MaxApis == 3
\* number of idle timers one connection manager sets
MaxTimers == 4
\* instances the factory of a registry builds in a behaviour
MaxInstances == 3

\* ------------------------------------------------------------ JS values
JsString(s) == [type |-> "string", val |-> s]
JsNumber(s) == [type |-> "number", val |-> s]
JsUndefined == [type |-> "undefined", val |-> ""]

\* typeof v
TypeOf(v) == v.type

\* content identifiers seen in payloads and events
Cids == {"c1", "c2"}

\* the cid argument a decoded payload can carry: a string, the number 42,
\* or nothing at all (a call without a cid argument)
PayloadCids == {JsString("c1"), JsNumber("42"), JsUndefined}

\* call names a decoded payload can carry
Methods == {"placeStorageOrder", "addPrepaid", "transfer"}

\* the transaction hash of the submission, and the block hashes an
\* included status can report
TxHash == "0xT"
BlockHashes == {"0xB1", "0xB2"}
NoHash == "undefined"

\* errors of the transport and of the readiness check
TransportErrors == {"E_disconnect"}
ReadyErrors == {"E_notready"}
NoError == ""

\* ------------------------------------------------------------- events
\* the argument lists a FileSuccess event can carry
EventData == {<<"c1">>, <<"c1", "c2">>}

Events ==
  [method : {"FileSuccess"}, data : EventData]
    \cup {[method |-> "ExtrinsicSuccess", data |-> <<>>]}

EventLists == UNION {[1..n -> Events] : n \in 0..MaxEvents}

\* a status update handed to the callback of send / signAndSend
Updates ==
  [isInBlock : {FALSE}, events : EventLists, txHash : {TxHash},
   inBlock : {NoHash}]
    \cup
  [isInBlock : {TRUE}, events : EventLists, txHash : {TxHash},
   inBlock : BlockHashes]

NoUpdate ==
  [isInBlock |-> FALSE, events |-> <<>>, txHash |-> NoHash,
   inBlock |-> NoHash]

\* ------------------------------------------------------------ promises
\* the promise an operation hands to its caller
\*   state: "none" (not called yet), "pending", "resolved", "rejected"
NoResult ==
  [state |-> "none", hash |-> NoHash, cid |-> JsUndefined, error |-> NoError]

Pending ==
  [state |-> "pending", hash |-> NoHash, cid |-> JsUndefined, error |-> NoError]

Resolved(hash, cid) ==
  [state |-> "resolved", hash |-> hash, cid |-> cid, error |-> NoError]

Rejected(e) ==
  [state |-> "rejected", hash |-> NoHash, cid |-> JsUndefined, error |-> e]

\* variant of Resolve: a later resolve replaces an earlier resolution
ResolveAgain(res, hash, cid) ==
  IF res.state \in {"pending", "resolved"} THEN Resolved(hash, cid) ELSE res

\* resolve({hash, cid}) of `new Promise((resolve, reject) => ...)`: settles a
\* pending promise and is without effect on a settled one
Resolve(res, hash, cid) ==
  IF res.state = "pending" THEN Resolved(hash, cid) ELSE res

\* reject(e) of the same promise
Reject(res, e) ==
  IF res.state = "pending" THEN Rejected(e) ELSE res

\* ------------------------------------------------------- error messages
OnlySupportPlace == "Only Support placeStorageOrder method"
OnlySupportAddPrepaid == "Only Support addPrepaid method"
NotValidCid == "Not Valid Cid"

\* ------------------------------------------------------ status callbacks
\* variant of Pop: the first argument instead of the last (shift for pop)
PopFirst(data) ==
  IF Len(data) = 0 THEN JsUndefined ELSE JsString(data[1])

\* data.pop()?.toHuman(): the last argument of the event, undefined when the
\* event carries none
Pop(data) ==
  IF Len(data) = 0 THEN JsUndefined ELSE JsString(data[Len(data)])

\* events.forEach(...) of the place-order callback, from event i on: cid is
\* the callback's local variable, res the promise
RECURSIVE ScanEvents(_, _, _, _, _)
ScanEvents(events, i, cid, txHash, res) ==
  IF i > Len(events) THEN res
  ELSE
    LET ev == events[i]
        cid1 == IF ev.method = "FileSuccess" THEN Pop(ev.data) ELSE cid
        res1 == IF ev.method = "ExtrinsicSuccess"
                THEN Resolve(res, txHash, cid1) ELSE res
    IN ScanEvents(events, i + 1, cid1, txHash, res1)

\* variant of PlaceCallback: the events of every update are scanned, included
\* or not
PlaceCallbackAnyStatus(res, u) ==
  ScanEvents(u.events, 1, JsUndefined, u.txHash, res)

\* variant of PlaceCallback: inclusion alone resolves, as for add-prepaid
PlaceCallbackOnInclusion(res, u) ==
  IF u.isInBlock
  THEN Resolve(ScanEvents(u.events, 1, JsUndefined, u.txHash, res),
               u.txHash, JsUndefined)
  ELSE res

\* the callback given to send / signAndSend by the place-order operations
PlaceCallback(res, u) ==
  IF u.isInBlock
  THEN ScanEvents(u.events, 1, JsUndefined, u.txHash, res)
  ELSE res

\* variant of StatusInBlock: the transaction hash instead of the block hash
StatusTxHash(u) == u.txHash

\* const { InBlock } = result.status.toHuman()
StatusInBlock(u) == u.inBlock

\* the callback given to send / signAndSend by the add-prepaid operations
AddPrepaidCallback(res, u, cid) ==
  IF u.isInBlock THEN Resolve(res, StatusInBlock(u), cid) ELSE res

\* ------------------------------------------------------------------ state
VARIABLES
  op,            \* the operation called: "none" before the call
  payload,       \* the decoded transaction: [method, cid]
  pc,            \* "idle", "awaitReady", "notReady" (readiness failed),
                 \*   "sent" (broadcast), "done" (rejected unsent)
  result,        \* the promise returned to the caller
  sendCalls,     \* number of calls of the transport's send / signAndSend
  sendPromise,   \* the promise send returned: "none", "pending",
                 \*   "fulfilled" (subscription established), "rejected"
  nUpdates,      \* status updates delivered so far
  firstIncluded, \* history: the first included update delivered
  speculativeES, \* history: a non-included update carried ExtrinsicSuccess
  includedES,    \* history: an included update carried ExtrinsicSuccess
  pendingErr,    \* history: first transport error raised while the result
                 \*   was pending
  settledErr     \* history: first transport error raised after the result
                 \*   was settled

\* the submission's variables
subVars ==
  <<op, payload, pc, result, sendCalls, sendPromise, nUpdates,
    firstIncluded, speculativeES, includedES, pendingErr, settledErr>>

\* ------------------------------------------- connection manager: state
\* CrustNoSeed of the idle-timeout variant: #api, #countDown and the
\* isReadyOrError calls in progress
VARIABLES
  apis,       \* every ApiPromise created so far, in order of creation:
              \*   [conn, ready]
              \*   conn: "connecting", "open", "closed", "failed"
              \*   ready (its isReadyOrError promise): "pending", "ok", "err"
  cur,        \* #api: position in apis of the ApiPromise in use
  timers,     \* the pending timeouts: [id, left], left in seconds
  countDown,  \* #countDown: id of the timeout set last
  nTimers,    \* timeouts set so far (the next id is nTimers + 1)
  lastFired,  \* history: id of the timeout that fired last, 0 if none
  cpc,        \* per caller, the position in isReadyOrError: "idle",
              \*   "awaitConnect", "connected", "awaitReady", "ok", "failed"
  capi,       \* per caller, the ApiPromise whose isReadyOrError it awaits
  txApi       \* the ApiPromise a submission was decoded and broadcast on
              \*   (0: none)

connVars ==
  <<apis, cur, timers, countDown, nTimers, lastFired, cpc, capi, txApi>>

\* const countDownSec = 60
countDownSec == 60

\* time advances in steps of half the delay
TickSec == countDownSec \div 2

\* the tasks that call isReadyOrError concurrently
Callers == {"a", "b"}

\* new ApiPromise({provider: new WsProvider(this.#net), ...}): the provider
\* starts connecting on its own
NewApi == [conn |-> "connecting", ready |-> "pending"]

\* the state after `new CrustNoSeed(parameters)`: one ApiPromise connecting
\* and one timeout pending for the full delay
ConnInit ==
  /\ apis = <<NewApi>>
  /\ cur = 1
  /\ timers = {[id |-> 1, left |-> countDownSec]}
  /\ countDown = 1
  /\ nTimers = 1
  /\ lastFired = 0
  /\ cpc = [c \in Callers |-> "idle"]
  /\ capi = [c \in Callers |-> 0]
  /\ txApi = 0

\* the registry of getUseCrust: the memoized instance, and each access
VARIABLES
  \* the closure variable `crust`: 0 while undefined, else an instance
  crust,
  \* instances built so far by the factory newCrust, numbered 1..nInst
  nInst,
  \* history: isReadyOrError rejections caught by validReady so far
  nFails,
  \* position of each useCrust call
  rpc,
  \* the instance whose isReadyOrError each call awaits (0: none)
  rchk,
  \* history: instances whose isReadyOrError fulfilled for each call
  rok,
  \* the instance each call returned (0: none)
  rret,
  \* history: isReadyOrError calls each useCrust call has made
  rtries

regVars == <<crust, nInst, nFails, rpc, rchk, rok, rret, rtries>>

\* concurrent useCrust calls
Accessors == {"x", "y"}

RegInit ==
  /\ crust = 0 /\ nInst = 0 /\ nFails = 0
  /\ rpc = [a \in Accessors |-> "idle"]
  /\ rchk = [a \in Accessors |-> 0]
  /\ rok = [a \in Accessors |-> {}]
  /\ rret = [a \in Accessors |-> 0]
  /\ rtries = [a \in Accessors |-> 0]

\* one call of an operation that builds, signs or queries
VARIABLES
  \* the operation called ("none" before the call)
  fop,
  \* its position: "idle", "awaitReady", "notReady", "done"
  fpc,
  \* its argument
  fin,
  \* the promise it returned
  fout,
  \* what it has done with the api: subset of ChainOps
  chainOps

facVars == <<fop, fpc, fin, fout, chainOps>>

NoInput == [kind |-> "none"]

NoOutput == [state |-> "none"]

FacInit ==
  /\ fop = "none" /\ fpc = "idle" /\ fin = NoInput
  /\ fout = NoOutput /\ chainOps = {}

vars == <<subVars, connVars, regVars, facVars>>

RawOps == {"placeStorageOrderRaw", "addPrepaidAmountRaw"}
SignedOps == {"placeStorageOrder", "addPrepaidAmount"}
PlaceOps == {"placeStorageOrderRaw", "placeStorageOrder"}
AddPrepaidOps == {"addPrepaidAmountRaw", "addPrepaidAmount"}

RawPayloads == [method : Methods, cid : PayloadCids]

NoPayload == [method |-> "none", cid |-> JsUndefined]

Init ==
  /\ op = "none"
  /\ payload = NoPayload
  /\ pc = "idle"
  /\ result = NoResult
  /\ sendCalls = 0
  /\ sendPromise = "none"
  /\ nUpdates = 0
  /\ firstIncluded = NoUpdate
  /\ speculativeES = FALSE
  /\ includedES = FALSE
  /\ pendingErr = NoError
  /\ settledErr = NoError
  /\ ConnInit
  /\ RegInit
  /\ FacInit

\* ---------------------------------------------------------------- actions
\* The caller invokes operation o. A raw operation receives an arbitrary
\* extrinsic p; a signed operation builds its own call from the cid it is
\* given. The operation runs up to `await this.isReadyOrError()`.
Invoke(o, p) ==
  /\ pc = "idle"
  /\ \/ o \in RawOps /\ p \in RawPayloads
     \/ /\ o = "placeStorageOrder"
        /\ p \in [method : {"placeStorageOrder"}, cid : {JsString(c) : c \in Cids}]
     \/ /\ o = "addPrepaidAmount"
        /\ p \in [method : {"addPrepaid"}, cid : {JsString(c) : c \in Cids}]
  /\ op' = o
  /\ payload' = p
  /\ pc' = "awaitReady"
  /\ result' = Pending
  /\ UNCHANGED <<sendCalls, sendPromise, nUpdates, firstIncluded,
                 speculativeES, includedES, pendingErr, settledErr>>
  /\ UNCHANGED <<connVars, regVars, facVars>>

\* `await this.isReadyOrError()` throws e: the async operation rejects with e
isReadyOrErrorRejects(e) ==
  /\ pc = "awaitReady"
  /\ result' = Reject(result, e)
  /\ pc' = "notReady"
  /\ UNCHANGED <<op, payload, sendCalls, sendPromise, nUpdates,
                 firstIncluded, speculativeES, includedES,
                 pendingErr, settledErr>>
  /\ UNCHANGED <<connVars, regVars, facVars>>

\* tx.send(callback) / tx.signAndSend(krp, callback)
Send ==
  /\ sendCalls' = sendCalls + 1
  /\ sendPromise' = "pending"
  /\ pc' = "sent"
  /\ UNCHANGED result

\* the executor rejects without a broadcast
RejectNow(e) ==
  /\ result' = Reject(result, e)
  /\ pc' = "done"
  /\ UNCHANGED <<sendCalls, sendPromise>>

\* variant of placeStorageOrderRawBody: no check of the call name
placeStorageOrderRawUnchecked(tx) == Send

\* CrustNoSeed.placeStorageOrderRaw after readiness
placeStorageOrderRawBody(tx) ==
  IF tx.method = "placeStorageOrder"
  THEN Send
  ELSE RejectNow(OnlySupportPlace)

placeStorageOrderRaw ==
  /\ pc = "awaitReady"
  /\ op = "placeStorageOrderRaw"
  /\ placeStorageOrderRawBody(payload)
  /\ UNCHANGED <<op, payload, nUpdates, firstIncluded,
                 speculativeES, includedES, pendingErr, settledErr>>
  /\ UNCHANGED <<connVars, regVars, facVars>>

\* variant of addPrepaidAmountRawBody: no check of the cid argument
addPrepaidAmountRawMethodOnly(tx) ==
  IF tx.method = "addPrepaid"
  THEN Send
  ELSE RejectNow(OnlySupportAddPrepaid)

\* CrustNoSeed.addPrepaidAmountRaw after readiness
addPrepaidAmountRawBody(tx) ==
  LET cid == tx.cid IN
  IF TypeOf(cid) # "string"
  THEN RejectNow(NotValidCid)
  ELSE IF tx.method = "addPrepaid"
       THEN Send
       ELSE RejectNow(OnlySupportAddPrepaid)

addPrepaidAmountRaw ==
  /\ pc = "awaitReady"
  /\ op = "addPrepaidAmountRaw"
  /\ addPrepaidAmountRawBody(payload)
  /\ UNCHANGED <<op, payload, nUpdates, firstIncluded,
                 speculativeES, includedES, pendingErr, settledErr>>
  /\ UNCHANGED <<connVars, regVars, facVars>>

\* Crust.placeStorageOrder (signing variant) after readiness
placeStorageOrder ==
  /\ pc = "awaitReady"
  /\ op = "placeStorageOrder"
  /\ Send
  /\ UNCHANGED <<op, payload, nUpdates, firstIncluded,
                 speculativeES, includedES, pendingErr, settledErr>>
  /\ UNCHANGED <<connVars, regVars, facVars>>

\* Crust.addPrepaidAmount (signing variant) after readiness
addPrepaidAmount ==
  /\ pc = "awaitReady"
  /\ op = "addPrepaidAmount"
  /\ Send
  /\ UNCHANGED <<op, payload, nUpdates, firstIncluded,
                 speculativeES, includedES, pendingErr, settledErr>>
  /\ UNCHANGED <<connVars, regVars, facVars>>

\* does the event list carry an ExtrinsicSuccess event
HasExtrinsicSuccess(events) ==
  \E i \in 1..Len(events) : events[i].method = "ExtrinsicSuccess"

\* the status callback of the operation in progress, run on update u
Callback(res, u) ==
  IF op \in PlaceOps
  THEN PlaceCallback(res, u)
  ELSE AddPrepaidCallback(res, u, payload.cid)

\* The transport delivers status update u to the callback. The first update
\* also fulfils the promise send returned (the subscription stands). The
\* subscription is never cancelled: updates arrive after settlement too.
StatusUpdate(u) ==
  /\ pc = "sent"
  /\ sendPromise \in {"pending", "fulfilled"}
  /\ nUpdates < MaxUpdates
  /\ sendPromise' = "fulfilled"
  /\ result' = Callback(result, u)
  /\ nUpdates' = nUpdates + 1
  /\ firstIncluded' =
       IF firstIncluded = NoUpdate /\ u.isInBlock THEN u ELSE firstIncluded
  /\ speculativeES' =
       (speculativeES \/ (~u.isInBlock /\ HasExtrinsicSuccess(u.events)))
  /\ includedES' =
       (includedES \/ (u.isInBlock /\ HasExtrinsicSuccess(u.events)))
  /\ UNCHANGED <<op, payload, pc, sendCalls, pendingErr, settledErr>>
  /\ UNCHANGED <<connVars, regVars, facVars>>

\* .catch((e) => reject(e)) on the promise send returned: the handler runs
\* when that promise rejects, which it can only do while it is pending
CatchSend(res, sp, e) ==
  IF sp = "pending" THEN Reject(res, e) ELSE res

\* The transport raises error e: at broadcast (the promise send returned is
\* still pending and rejects) or mid-flight (that promise is fulfilled
\* already, and a settled promise stays as it is).
TransportError(e) ==
  /\ pc = "sent"
  /\ sendPromise \in {"pending", "fulfilled"}
  /\ result' = CatchSend(result, sendPromise, e)
  /\ sendPromise' = IF sendPromise = "pending" THEN "rejected" ELSE sendPromise
  /\ pendingErr' =
       IF pendingErr = NoError /\ result.state = "pending" THEN e
       ELSE pendingErr
  /\ settledErr' =
       IF settledErr = NoError /\ result.state # "pending" THEN e
       ELSE settledErr
  /\ UNCHANGED <<op, payload, pc, sendCalls, nUpdates, firstIncluded,
                 speculativeES, includedES>>
  /\ UNCHANGED <<connVars, regVars, facVars>>

Next ==
  \/ \E o \in RawOps \cup SignedOps :
       \E p \in RawPayloads
                  \cup [method : {"placeStorageOrder", "addPrepaid"},
                        cid : {JsString(c) : c \in Cids}] : Invoke(o, p)
  \/ \E e \in ReadyErrors : isReadyOrErrorRejects(e)
  \/ placeStorageOrderRaw
  \/ addPrepaidAmountRaw
  \/ placeStorageOrder
  \/ addPrepaidAmount
  \/ \E u \in Updates : StatusUpdate(u)
  \/ \E e \in TransportErrors : TransportError(e)

Spec == Init /\ [][Next]_vars

\* ----------------------------------------- connection manager: actions
\* isConnected = () => this.#api.isConnected
isConnected == apis[cur].conn = "open"

\* number of ApiPromise objects opened and not disconnected
LiveApis ==
  Cardinality({i \in 1..Len(apis) : apis[i].conn \in {"connecting", "open"}})

\* a continuation of some isReadyOrError call is ready to run: promise
\* continuations (microtasks) run before the next timer or network event
MicrotaskPending ==
  \E c \in Callers :
    \/ cpc[c] = "connected"
    \/ cpc[c] \in {"awaitConnect", "awaitReady"}
         /\ apis[capi[c]].ready # "pending"

\* connect, up to its await: this.#api = new ApiPromise(...)
connect ==
  /\ apis' = Append(apis, NewApi)
  /\ cur' = Len(apis) + 1

\* disconnect = async () => await this.#api.disconnect()
disconnect ==
  /\ apis' =
       [apis EXCEPT ![cur].conn =
          IF @ \in {"open", "connecting"} THEN "closed" ELSE @]
  /\ UNCHANGED cur

\* Caller c calls isReadyOrError, which runs up to its first await: of
\* this.connect() when not connected, of this.#api.isReadyOrError otherwise
isReadyOrErrorStart(c) ==
  /\ cpc[c] = "idle"
  /\ IF ~isConnected
     THEN /\ Len(apis) < MaxApis
          /\ connect
          /\ cpc' = [cpc EXCEPT ![c] = "awaitConnect"]
          /\ capi' = [capi EXCEPT ![c] = Len(apis) + 1]
     ELSE /\ cpc' = [cpc EXCEPT ![c] = "awaitReady"]
          /\ capi' = [capi EXCEPT ![c] = cur]
          /\ UNCHANGED <<apis, cur>>
  /\ UNCHANGED <<timers, countDown, nTimers, lastFired>>

\* caller c calls isReadyOrError by itself
isReadyOrErrorCall(c) ==
  /\ isReadyOrErrorStart(c)
  /\ UNCHANGED <<txApi, subVars, regVars, facVars>>

\* `await this.#api.isReadyOrError` inside connect settles for caller c:
\* connect returns, or throws and isReadyOrError throws with it
connectResumes(c) ==
  /\ cpc[c] = "awaitConnect"
  /\ apis[capi[c]].ready # "pending"
  /\ cpc' = [cpc EXCEPT ![c] =
               IF apis[capi[c]].ready = "ok" THEN "connected" ELSE "failed"]
  /\ UNCHANGED <<apis, cur, timers, countDown, nTimers, lastFired, capi,
                 txApi, subVars,
                 regVars, facVars>>

\* after `await this.connect()`: caller c evaluates
\* this.#api.isReadyOrError, the promise of the ApiPromise then in use
awaitApiReady(c) ==
  /\ cpc[c] = "connected"
  /\ cpc' = [cpc EXCEPT ![c] = "awaitReady"]
  /\ capi' = [capi EXCEPT ![c] = cur]
  /\ UNCHANGED <<apis, cur, timers, countDown, nTimers, lastFired, txApi, subVars,
                 regVars, facVars>>

\* variant of clearTimeout: the pending timeout is left in place
clearNothing(ts, id) == ts

\* clearTimeout(this.#countDown)
clearTimeout(ts, id) == {t \in ts : t.id # id}

\* clearTimeout(this.#countDown); this.#setCountDown()
resetCountDown ==
  /\ timers' =
       clearTimeout(timers, countDown)
         \cup {[id |-> nTimers + 1, left |-> countDownSec]}
  /\ countDown' = nTimers + 1
  /\ nTimers' = nTimers + 1

\* variant of throwBeforeReset: the timeout is reset on the failure path too
resetThenThrow ==
  /\ timers' =
       clearTimeout(timers, countDown)
         \cup {[id |-> nTimers + 1, left |-> countDownSec]}
  /\ countDown' = nTimers + 1
  /\ nTimers' = nTimers + 1

\* the await throws: the statements after it, clearTimeout and
\* #setCountDown, are not executed
throwBeforeReset == UNCHANGED <<timers, countDown, nTimers>>

\* `await this.#api.isReadyOrError` settles for caller c: on success the
\* timeout is reset and isReadyOrError returns, on failure it throws
readyResumes(c) ==
  /\ cpc[c] = "awaitReady"
  /\ apis[capi[c]].ready # "pending"
  /\ IF apis[capi[c]].ready = "ok"
     THEN /\ nTimers < MaxTimers
          /\ resetCountDown
          /\ cpc' = [cpc EXCEPT ![c] = "ok"]
     ELSE /\ cpc' = [cpc EXCEPT ![c] = "failed"]
          /\ throwBeforeReset
  /\ UNCHANGED <<apis, cur, lastFired, capi, txApi, subVars,
                 regVars, facVars>>

\* caller c has its answer and may call again
isReadyOrErrorReturns(c) ==
  /\ cpc[c] \in {"ok", "failed"}
  /\ cpc' = [cpc EXCEPT ![c] = "idle"]
  /\ capi' = [capi EXCEPT ![c] = 0]
  /\ UNCHANGED <<apis, cur, timers, countDown, nTimers, lastFired, txApi, subVars,
                 regVars, facVars>>

\* the provider of ApiPromise i connects and the api becomes ready
ApiReady(i) ==
  /\ ~MicrotaskPending
  /\ apis[i].conn = "connecting"
  /\ apis' = [apis EXCEPT ![i] = [conn |-> "open", ready |-> "ok"]]
  /\ UNCHANGED <<cur, timers, countDown, nTimers, lastFired, cpc, capi,
                 txApi, subVars,
                 regVars, facVars>>

\* ApiPromise i, not ready yet, reports an error: its isReadyOrError rejects
ApiError(i) ==
  /\ ~MicrotaskPending
  /\ apis[i].ready = "pending"
  /\ apis' =
       [apis EXCEPT ![i] =
          [conn |-> IF @.conn = "connecting" THEN "failed" ELSE @.conn,
           ready |-> "err"]]
  /\ UNCHANGED <<cur, timers, countDown, nTimers, lastFired, cpc, capi,
                 txApi, subVars,
                 regVars, facVars>>

\* time passes, as long as no pending timeout is due
Tick ==
  /\ ~MicrotaskPending
  /\ timers # {}
  /\ \A t \in timers : t.left > 0
  /\ timers' =
       {[id |-> t.id,
         left |-> IF t.left > TickSec THEN t.left - TickSec ELSE 0] :
          t \in timers}
  /\ UNCHANGED <<apis, cur, countDown, nTimers, lastFired, cpc, capi,
                 txApi, subVars,
                 regVars, facVars>>

\* timeout t is due: setTimeout runs this.disconnect
TimerFires(t) ==
  /\ ~MicrotaskPending
  /\ t \in timers
  /\ t.left = 0
  /\ timers' = timers \ {t}
  /\ lastFired' = t.id
  /\ disconnect
  /\ UNCHANGED <<countDown, nTimers, cpc, capi, txApi, subVars,
                 regVars, facVars>>

\* the user calls connect() of the manager
connectCall ==
  /\ Len(apis) < MaxApis
  /\ connect
  /\ UNCHANGED <<timers, countDown, nTimers, lastFired, cpc, capi, txApi, subVars,
                 regVars, facVars>>

\* the user calls disconnect() of the manager
disconnectCall ==
  /\ disconnect
  /\ UNCHANGED <<timers, countDown, nTimers, lastFired, cpc, capi, txApi, subVars,
                 regVars, facVars>>

\* the manager used through isReadyOrError alone
IdleNext ==
  \/ \E c \in Callers : isReadyOrErrorCall(c)
  \/ \E c \in Callers : connectResumes(c)
  \/ \E c \in Callers : awaitApiReady(c)
  \/ \E c \in Callers : readyResumes(c)
  \/ \E c \in Callers : isReadyOrErrorReturns(c)
  \/ \E i \in 1..Len(apis) : ApiReady(i)
  \/ \E i \in 1..Len(apis) : ApiError(i)
  \/ Tick
  \/ \E t \in timers : TimerFires(t)

IdleSpec == Init /\ [][IdleNext]_vars

\* the manager with its connect() and disconnect() called by the user too
ConnNext ==
  \/ \E c \in Callers : isReadyOrErrorCall(c)
  \/ \E c \in Callers : connectResumes(c)
  \/ \E c \in Callers : awaitApiReady(c)
  \/ \E c \in Callers : readyResumes(c)
  \/ \E c \in Callers : isReadyOrErrorReturns(c)
  \/ \E i \in 1..Len(apis) : ApiReady(i)
  \/ \E i \in 1..Len(apis) : ApiError(i)
  \/ Tick
  \/ \E t \in timers : TimerFires(t)
  \/ connectCall
  \/ disconnectCall

ConnSpec == Init /\ [][ConnNext]_vars

\* ------------------------- a submission through the connection manager
\* the caller whose isReadyOrError call is the one placeStorageOrderRaw makes
Submitter == "a"

\* status updates delivered to the submission
SubmitUpdates ==
  {u \in Updates :
     /\ u.events \in
          {<<>>,
           <<[method |-> "FileSuccess", data |-> <<"c1">>],
             [method |-> "ExtrinsicSuccess", data |-> <<>>]>>}
     /\ u.inBlock \in {NoHash, "0xB1"}}

\* the continuation of the submitter's isReadyOrError is about to run
SubmitterResumes == cpc[Submitter] \in {"ok", "failed"}

\* placeStorageOrderRaw(p) is called and runs up to the first await inside
\* isReadyOrError
submitCall(p) ==
  /\ pc = "idle"
  /\ p \in RawPayloads
  /\ op' = "placeStorageOrderRaw"
  /\ payload' = p
  /\ pc' = "awaitReady"
  /\ result' = Pending
  /\ isReadyOrErrorStart(Submitter)
  /\ UNCHANGED <<sendCalls, sendPromise, nUpdates, firstIncluded,
                 speculativeES, includedES, pendingErr, settledErr>>
  /\ UNCHANGED <<txApi, regVars, facVars>>

\* `await this.isReadyOrError()` throws in placeStorageOrderRaw
submitNotReady(e) ==
  /\ pc = "awaitReady"
  /\ cpc[Submitter] = "failed"
  /\ result' = Reject(result, e)
  /\ pc' = "notReady"
  /\ cpc' = [cpc EXCEPT ![Submitter] = "idle"]
  /\ capi' = [capi EXCEPT ![Submitter] = 0]
  /\ UNCHANGED <<op, payload, sendCalls, sendPromise, nUpdates,
                 firstIncluded, speculativeES, includedES,
                 pendingErr, settledErr>>
  /\ UNCHANGED <<apis, cur, timers, countDown, nTimers, lastFired, txApi,
                 regVars, facVars>>

\* `await this.isReadyOrError()` returns in placeStorageOrderRaw:
\* this.#api.tx(extrinsic) on the ApiPromise in use, then the executor
submitReady ==
  /\ pc = "awaitReady"
  /\ cpc[Submitter] = "ok"
  /\ txApi' = cur
  /\ placeStorageOrderRawBody(payload)
  /\ cpc' = [cpc EXCEPT ![Submitter] = "idle"]
  /\ capi' = [capi EXCEPT ![Submitter] = 0]
  /\ UNCHANGED <<op, payload, nUpdates, firstIncluded,
                 speculativeES, includedES, pendingErr, settledErr>>
  /\ UNCHANGED <<apis, cur, timers, countDown, nTimers, lastFired,
                 regVars, facVars>>

\* the ApiPromise the submission was broadcast on, still connected,
\* delivers status update u
submitStatusUpdate(u) ==
  /\ txApi # 0
  /\ apis[txApi].conn = "open"
  /\ StatusUpdate(u)

SubmitNext ==
  \/ \E p \in RawPayloads : submitCall(p)
  \/ connectResumes(Submitter)
  \/ awaitApiReady(Submitter)
  \/ readyResumes(Submitter)
  \/ \E e \in ReadyErrors : submitNotReady(e)
  \/ submitReady
  \/ \E u \in SubmitUpdates : submitStatusUpdate(u)
  \/ \E e \in TransportErrors : TransportError(e)
  \/ \E i \in 1..Len(apis) : ~SubmitterResumes /\ ApiReady(i)
  \/ \E i \in 1..Len(apis) : ~SubmitterResumes /\ ApiError(i)
  \/ ~SubmitterResumes /\ Tick
  \/ \E t \in timers : ~SubmitterResumes /\ TimerFires(t)

SubmitSpec == Init /\ [][SubmitNext]_vars

\* ------------------------------------------------------ registry: actions
\* newCrust(): the factory builds an instance, an object distinct from every
\* earlier one
newCrust == nInst + 1

\* variant of crustUndefined: the memoized instance is never looked at
crustIgnored == TRUE

\* !crust
crustUndefined == crust = 0

\* validReady, up to its await: isReadyOrError() of the instance memoized at
\* that moment is called
validReady(a, inst) ==
  /\ rchk' = [rchk EXCEPT ![a] = inst]
  /\ rtries' = [rtries EXCEPT ![a] = @ + 1]
  /\ rpc' = [rpc EXCEPT ![a] = "checking"]

\* access a calls useCrust(), which runs up to `await cryptoWaitReady()`
useCrustCall(a) ==
  /\ rpc[a] = "idle"
  /\ rpc' = [rpc EXCEPT ![a] = "cryptoWait"]
  /\ rchk' = [rchk EXCEPT ![a] = 0]
  /\ rok' = [rok EXCEPT ![a] = {}]
  /\ rret' = [rret EXCEPT ![a] = 0]
  /\ rtries' = [rtries EXCEPT ![a] = 0]
  /\ UNCHANGED <<crust, nInst, nFails, subVars, connVars, facVars>>

\* after `await cryptoWaitReady()`: if (!crust) crust = newCrust(); then
\* validReady up to its await
useCrust(a) ==
  /\ rpc[a] = "cryptoWait"
  /\ IF crustUndefined
     THEN /\ nInst < MaxInstances
          /\ crust' = newCrust
          /\ nInst' = nInst + 1
     ELSE UNCHANGED <<crust, nInst>>
  /\ validReady(a, crust')
  /\ UNCHANGED <<nFails, rok, rret, subVars, connVars, facVars>>

\* `await crust.isReadyOrError()` fulfils for access a: return crust
tryReturns(a) ==
  /\ rpc[a] = "checking"
  /\ rok' = [rok EXCEPT ![a] = @ \cup {rchk[a]}]
  /\ rret' = [rret EXCEPT ![a] = crust]
  /\ rpc' = [rpc EXCEPT ![a] = "returned"]
  /\ UNCHANGED <<crust, nInst, nFails, rchk, rtries, subVars, connVars,
                 facVars>>

\* variant of catchBlock: the check is repeated on the memoized instance
catchRetry(a) ==
  /\ validReady(a, crust)
  /\ UNCHANGED <<crust, nInst>>

\* variant of catchBlock: the error is thrown to the caller of useCrust
catchRethrow(a) ==
  /\ rpc' = [rpc EXCEPT ![a] = "rejected"]
  /\ UNCHANGED <<crust, nInst, rchk, rtries>>

\* catch (error) { crust = newCrust(); return await validReady(newCrust); }
catchBlock(a) ==
  /\ crust' = newCrust
  /\ nInst' = nInst + 1
  /\ validReady(a, crust')

\* `await crust.isReadyOrError()` rejects for access a: the catch block runs
catchRuns(a) ==
  /\ rpc[a] = "checking"
  /\ nInst < MaxInstances
  /\ nFails' = nFails + 1
  /\ catchBlock(a)
  /\ UNCHANGED <<rok, rret, subVars, connVars, facVars>>

\* the caller of useCrust has the instance and may call again
useCrustReturns(a) ==
  /\ rpc[a] = "returned"
  /\ rpc' = [rpc EXCEPT ![a] = "idle"]
  /\ UNCHANGED <<crust, nInst, nFails, rchk, rok, rret, rtries, subVars,
                 connVars, facVars>>

RegNext ==
  \/ \E a \in Accessors : useCrustCall(a)
  \/ \E a \in Accessors : useCrust(a)
  \/ \E a \in Accessors : tryReturns(a)
  \/ \E a \in Accessors : catchRuns(a)
  \/ \E a \in Accessors : useCrustReturns(a)

RegSpec == Init /\ [][RegNext]_vars

\* ------------------------------------- facade: build, sign, query, submit
BuildOps == {"getPlaceStorageOrderRaw", "getAddPrepaidAmountRaw"}
SignOps == {"signPlaceStorageOrderEx", "signAddPrepaidAmountEx"}
QueryOps == {"getOrderStatus"}

\* what an operation does with the api, a broadcast apart (see sendCalls)
ChainOps == {"build", "decode", "sign", "query"}

\* entry.size, entry.tips: given, or omitted
Sizes == {JsUndefined, JsNumber("0"), JsNumber("5")}

\* the argument of getPlaceStorageOrderRaw
Entries ==
  [cid : Cids, type : {"directory", "others"}, size : Sizes, tips : Sizes]

Amounts == {JsNumber("5")}

\* a ?? b
Nullish(a, b) == IF a = JsUndefined THEN b ELSE a

\* this.#api.tx.market.placeStorageOrder(fileCid, size, tips, memo)
MarketPlaceStorageOrder(cid, size, tips, memo) ==
  [method |-> "placeStorageOrder", args |-> <<cid, size, tips, memo>>]

\* this.#api.tx.market.addPrepaid(fileCid, amount)
MarketAddPrepaid(cid, amount) ==
  [method |-> "addPrepaid", args |-> <<cid, amount>>]

\* tx.toHex() of an unsigned or signed extrinsic
ToHex(tx, signed) == [hex |-> tx, signed |-> signed]

\* getTx = (extrinsic) => this.#api.tx(extrinsic)
getTx(ex) == ex.hex

\* extrinsics handed to the signing operations
Extrinsics ==
  {ToHex(MarketPlaceStorageOrder(JsString("c1"), JsNumber("0"),
                                 JsNumber("0"), JsString("")), FALSE),
   ToHex(MarketAddPrepaid(JsString("c1"), JsNumber("5")), FALSE),
   ToHex([method |-> "transfer", args |-> <<>>], FALSE)}

\* what api.query.market.filesV2(cid) answers, toHuman()
OrderStatuses == {"null", "OrderStatus"}

MethodError == "Method error"

FacPending == [state |-> "pending"]
FacResolved(v) == [state |-> "resolved", value |-> v]
FacRejected(e) == [state |-> "rejected", error |-> e]

\* variant of Memo: the two memo values exchanged
MemoSwapped(type) == IF type = "directory" THEN "" ELSE "folder"

\* entry.type === "directory" ? "folder" : ""
Memo(type) == IF type = "directory" THEN "folder" ELSE ""

\* the extrinsic getPlaceStorageOrderRaw builds
BuildPlaceStorageOrder(entry) ==
  MarketPlaceStorageOrder(JsString(entry.cid),
                          Nullish(entry.size, JsNumber("0")),
                          Nullish(entry.tips, JsNumber("0")),
                          JsString(Memo(entry.type)))

\* The caller invokes operation o with argument i; the operation runs up to
\* `await this.isReadyOrError()`
FacadeCall(o, i) ==
  /\ fpc = "idle"
  /\ \/ /\ o = "getPlaceStorageOrderRaw"
        /\ i \in [kind : {"entry"}, entry : Entries]
     \/ /\ o = "getAddPrepaidAmountRaw"
        /\ i \in [kind : {"prepaid"}, cid : Cids, amount : Amounts]
     \/ /\ o = "getOrderStatus"
        /\ i \in [kind : {"cid"}, cid : Cids]
     \/ /\ o \in SignOps
        /\ i \in [kind : {"ex"}, ex : Extrinsics]
  /\ fop' = o
  /\ fin' = i
  /\ fpc' = "awaitReady"
  /\ fout' = FacPending
  /\ UNCHANGED <<chainOps, subVars, connVars, regVars>>

\* variant of FacadeNotReady: the query was issued before readiness was known
FacadeNotReadyAfterQuery(e) ==
  /\ fpc = "awaitReady"
  /\ fout' = FacRejected(e)
  /\ fpc' = "notReady"
  /\ chainOps' = chainOps \cup {"query"}
  /\ UNCHANGED <<fop, fin, subVars, connVars, regVars>>

\* `await this.isReadyOrError()` throws e: the async operation rejects with e
FacadeNotReady(e) ==
  /\ fpc = "awaitReady"
  /\ fout' = FacRejected(e)
  /\ fpc' = "notReady"
  /\ UNCHANGED <<fop, fin, chainOps, subVars, connVars, regVars>>

\* CrustNoSeed.getPlaceStorageOrderRaw after readiness
getPlaceStorageOrderRaw ==
  /\ fpc = "awaitReady"
  /\ fop = "getPlaceStorageOrderRaw"
  /\ chainOps' = chainOps \cup {"build"}
  /\ fout' = FacResolved(ToHex(BuildPlaceStorageOrder(fin.entry), FALSE))
  /\ fpc' = "done"
  /\ UNCHANGED <<fop, fin, subVars, connVars, regVars>>

\* CrustNoSeed.getAddPrepaidAmountRaw after readiness
getAddPrepaidAmountRaw ==
  /\ fpc = "awaitReady"
  /\ fop = "getAddPrepaidAmountRaw"
  /\ chainOps' = chainOps \cup {"build"}
  /\ fout' =
       FacResolved(ToHex(MarketAddPrepaid(JsString(fin.cid), fin.amount),
                         FALSE))
  /\ fpc' = "done"
  /\ UNCHANGED <<fop, fin, subVars, connVars, regVars>>

\* CrustNoSeed.getOrderStatus after readiness: the query answers, or fails
getOrderStatus ==
  /\ fpc = "awaitReady"
  /\ fop = "getOrderStatus"
  /\ chainOps' = chainOps \cup {"query"}
  /\ \/ \E v \in OrderStatuses : fout' = FacResolved(v)
     \/ \E e \in TransportErrors : fout' = FacRejected(e)
  /\ fpc' = "done"
  /\ UNCHANGED <<fop, fin, subVars, connVars, regVars>>

\* signPlaceStorageOrderEx / signAddPrepaidAmountEx after readiness, for the
\* call name each accepts
signEx(method) ==
  /\ fpc = "awaitReady"
  /\ LET tx == getTx(fin.ex) IN
       IF tx.method = method
       THEN /\ chainOps' = chainOps \cup {"decode", "sign"}
            /\ fout' = FacResolved(ToHex(tx, TRUE))
       ELSE /\ chainOps' = chainOps \cup {"decode"}
            /\ fout' = FacRejected(MethodError)
  /\ fpc' = "done"
  /\ UNCHANGED <<fop, fin, subVars, connVars, regVars>>

signPlaceStorageOrderEx ==
  /\ fop = "signPlaceStorageOrderEx"
  /\ signEx("placeStorageOrder")

signAddPrepaidAmountEx ==
  /\ fop = "signAddPrepaidAmountEx"
  /\ signEx("addPrepaid")

\* one call of a submitting operation and one of another operation
FacadeNext ==
  \/ \E o \in RawOps, p \in RawPayloads : Invoke(o, p)
  \/ \E e \in ReadyErrors : isReadyOrErrorRejects(e)
  \/ placeStorageOrderRaw
  \/ addPrepaidAmountRaw
  \/ \E o \in BuildOps \cup QueryOps \cup SignOps :
       \E i \in [kind : {"entry"}, entry : Entries]
                \cup [kind : {"prepaid"}, cid : Cids, amount : Amounts]
                \cup [kind : {"cid"}, cid : Cids]
                \cup [kind : {"ex"}, ex : Extrinsics] : FacadeCall(o, i)
  \/ \E e \in ReadyErrors : FacadeNotReady(e)
  \/ getPlaceStorageOrderRaw
  \/ getAddPrepaidAmountRaw
  \/ getOrderStatus
  \/ signPlaceStorageOrderEx
  \/ signAddPrepaidAmountEx

FacadeSpec == Init /\ [][FacadeNext]_vars

\* ============================================================ properties

FileSuccess(data) == [method |-> "FileSuccess", data |-> data]
ExtrinsicSuccess == [method |-> "ExtrinsicSuccess", data |-> <<>>]

\* position of the first ExtrinsicSuccess event of a list that has one
FirstExtrinsicSuccess(events) ==
  CHOOSE j \in 1..Len(events) :
    /\ events[j].method = "ExtrinsicSuccess"
    /\ \A k \in 1..(j - 1) : events[k].method # "ExtrinsicSuccess"

\* event i is a FileSuccess with last argument c
FileSuccessWith(events, i, c) ==
  /\ events[i].method = "FileSuccess"
  /\ Len(events[i].data) > 0
  /\ events[i].data[Len(events[i].data)] = c

\* C1, as stated: for a place-order submission, when the first included
\* update carries an event list in which some FileSuccess with last argument
\* c is followed by some ExtrinsicSuccess, the result is resolved with the
\* transaction hash of that update and cid c.
C1_AnyFileSuccessBeforeAnyExtrinsicSuccess ==
  \A c \in Cids :
    ( /\ op \in PlaceOps
      /\ firstIncluded # NoUpdate
      /\ \E i, j \in 1..Len(firstIncluded.events) :
           /\ i < j
           /\ FileSuccessWith(firstIncluded.events, i, c)
           /\ firstIncluded.events[j].method = "ExtrinsicSuccess" )
    => result = Resolved(firstIncluded.txHash, JsString(c))

\* C1, amended: for a place-order submission, when the first included update
\* carries an event list whose first ExtrinsicSuccess is preceded by a
\* FileSuccess, and the last FileSuccess before it has last argument c, the
\* result is resolved with the transaction hash of that update and cid c,
\* whatever non-included updates came before and whatever updates follow.
C1_ResolvesWithLastFileSuccessCid ==
  \A c \in Cids :
    ( /\ op \in PlaceOps
      /\ firstIncluded # NoUpdate
      /\ HasExtrinsicSuccess(firstIncluded.events)
      /\ \E i \in 1..(FirstExtrinsicSuccess(firstIncluded.events) - 1) :
           /\ FileSuccessWith(firstIncluded.events, i, c)
           /\ \A k \in (i + 1)..(FirstExtrinsicSuccess(firstIncluded.events) - 1) :
                firstIncluded.events[k].method # "FileSuccess" )
    => result = Resolved(firstIncluded.txHash, JsString(c))

\* a place-order submission resolved with cid c2 by an included update
\* [FileSuccess(c1, c2), ExtrinsicSuccess], among three updates of which a
\* non-included one carried ExtrinsicSuccess too
C1_Witness ==
  /\ op \in PlaceOps
  /\ nUpdates = 3
  /\ speculativeES
  /\ firstIncluded.isInBlock
  /\ firstIncluded.events = <<FileSuccess(<<"c1", "c2">>), ExtrinsicSuccess>>
  /\ result = Resolved(TxHash, JsString("c2"))

\* C2: a settled result (resolved or rejected) is never changed by a later
\* step: no later status update and no later transport error alters the
\* outcome or the resolved {hash, cid}.
C2_SettledAtMostOnce ==
  [][result.state \in {"resolved", "rejected"} => result' = result]_vars

\* a submission resolved by its first included update, which carried two
\* ExtrinsicSuccess events, after which two more updates and a transport
\* error arrived
C2_Witness ==
  /\ pc = "sent"
  /\ nUpdates = 3
  /\ firstIncluded.isInBlock
  /\ firstIncluded.events =
       <<ExtrinsicSuccess, FileSuccess(<<"c1">>), ExtrinsicSuccess>>
  /\ settledErr # NoError
  /\ pendingErr = NoError
  /\ result.state = "resolved"

\* C3: placeStorageOrderRaw given a payload whose call name is not
\* placeStorageOrder never calls send, and once readiness has succeeded it
\* is rejected with the error naming placeStorageOrder.
C3_WrongMethodPlaceRaw ==
  (op = "placeStorageOrderRaw" /\ payload.method # "placeStorageOrder")
    => /\ sendCalls = 0
       /\ pc # "sent"
       /\ pc = "done" => result = Rejected(OnlySupportPlace)

\* placeStorageOrderRaw rejected an addPrepaid payload
C3_Witness ==
  /\ op = "placeStorageOrderRaw"
  /\ payload.method = "addPrepaid"
  /\ pc = "done"
  /\ result = Rejected(OnlySupportPlace)
  /\ sendCalls = 0

\* C4: addPrepaidAmountRaw given a payload whose cid argument is not a
\* string (a number, or absent) never calls send, and once readiness has
\* succeeded it is rejected with the invalid-cid error.
C4_InvalidCidAddPrepaidRaw ==
  (op = "addPrepaidAmountRaw" /\ TypeOf(payload.cid) # "string")
    => /\ sendCalls = 0
       /\ pc # "sent"
       /\ pc = "done" => result = Rejected(NotValidCid)

\* addPrepaidAmountRaw rejected an addPrepaid payload whose cid is 42
C4_Witness ==
  /\ op = "addPrepaidAmountRaw"
  /\ payload = [method |-> "addPrepaid", cid |-> JsNumber("42")]
  /\ pc = "done"
  /\ result = Rejected(NotValidCid)
  /\ sendCalls = 0

\* C5, as stated: addPrepaidAmountRaw given a payload whose call name is not
\* addPrepaid never calls send, and once readiness has succeeded it is
\* rejected with the wrong-method error naming addPrepaid, whatever the
\* payload's cid argument is.
C5_MethodCheckedFirst ==
  (op = "addPrepaidAmountRaw" /\ payload.method # "addPrepaid")
    => /\ sendCalls = 0
       /\ pc # "sent"
       /\ pc = "done" => result = Rejected(OnlySupportAddPrepaid)

\* C6: for an add-prepaid submission with content identifier c (the argument
\* of the signed path, the decoded cid of the raw path), once an included
\* update has been delivered the result is resolved with the block hash that
\* the first included update reported and with cid c, whatever events the
\* update carried.
C6_AddPrepaidResolvesOnInclusion ==
  (op \in AddPrepaidOps /\ firstIncluded # NoUpdate)
    => result = Resolved(firstIncluded.inBlock, payload.cid)

\* a raw add-prepaid submission for c1 resolved with block hash 0xB2 by an
\* included update without events, among three updates
C6_Witness ==
  /\ op = "addPrepaidAmountRaw"
  /\ payload.cid = JsString("c1")
  /\ nUpdates = 3
  /\ firstIncluded.isInBlock
  /\ firstIncluded.events = <<>>
  /\ firstIncluded.inBlock = "0xB2"
  /\ result = Resolved("0xB2", JsString("c1"))

\* C7: a submission is resolved only once an included update has been
\* delivered: while the broadcast stands and every update so far was
\* non-included, the result is pending, whatever events those updates
\* carried.
C7_NotResolvedBeforeInclusion ==
  /\ result.state = "resolved" => firstIncluded # NoUpdate
  /\ (pc = "sent" /\ sendPromise # "rejected" /\ firstIncluded = NoUpdate)
       => result = Pending

\* three non-included updates, one of them carrying ExtrinsicSuccess, and
\* the result still pending
C7_Witness ==
  /\ pc = "sent"
  /\ nUpdates = 3
  /\ firstIncluded = NoUpdate
  /\ speculativeES
  /\ result = Pending

\* C8, as stated: a transport error raised while the result was pending
\* leaves the result rejected with that error.
C8_ErrorWhilePendingRejects ==
  pendingErr # NoError => result = Rejected(pendingErr)

\* C9, as stated: a resolved result carries a defined hash and a defined
\* cid.
C9_NoPartialSuccess ==
  result.state = "resolved"
    => (result.hash # NoHash /\ TypeOf(result.cid) # "undefined")

\* C10: a place-order submission is resolved only once an included update
\* has carried ExtrinsicSuccess; while the broadcast stands and no included
\* update has carried it, the result is pending: neither resolved nor
\* rejected, whatever else was delivered.
C10_PendingWithoutExtrinsicSuccess ==
  /\ (op \in PlaceOps /\ result.state = "resolved") => includedES
  /\ (op \in PlaceOps /\ pc = "sent" /\ sendPromise # "rejected"
        /\ ~includedES)
       => result = Pending

\* a place-order submission included with FileSuccess alone: three updates
\* delivered, none of the included ones with ExtrinsicSuccess, and the
\* result still pending
C10_Witness ==
  /\ op \in PlaceOps
  /\ nUpdates = 3
  /\ firstIncluded.isInBlock
  /\ firstIncluded.events = <<FileSuccess(<<"c1">>)>>
  /\ ~includedES
  /\ result = Pending

\* ------------------------------------------ connection manager: claims
\* caller c's isReadyOrError completes successfully in this step
ReadySucceeds(c) == cpc[c] = "awaitReady" /\ cpc'[c] = "ok"

\* the timeout scheduled by the latest setCountDown, with the full delay left
FreshTimer == [id |-> countDown, left |-> countDownSec]

\* C11: a timeout fires only as the one set by the latest successful
\* isReadyOrError (or by the constructor) and leaves isConnected() false; an
\* isReadyOrError call that finds the manager not connected opens a new
\* connection itself; and when an isReadyOrError call succeeds, isConnected()
\* is true, the caller never having called connect().
C11_IdleTimeoutThenReconnect ==
  [][/\ lastFired' # lastFired =>
          /\ lastFired' = countDown
          /\ [id |-> countDown, left |-> 0] \in timers
          /\ ~isConnected'
     /\ \A c \in Callers :
          (cpc[c] = "idle" /\ cpc'[c] # "idle" /\ ~isConnected) =>
            /\ Len(apis') = Len(apis) + 1
            /\ cur' = Len(apis')
            /\ apis'[cur'] = NewApi
     /\ \A c \in Callers : ReadySucceeds(c) => isConnected']_vars

\* C12: at most one idle timeout is pending in every reachable state, and
\* when an isReadyOrError call succeeds the pending timeout is a new one,
\* scheduled by that call for the full delay, the previous one being gone.
C12_OneFreshIdleTimer ==
  /\ [](Cardinality(timers) <= 1)
  /\ [][\A c \in Callers :
          ReadySucceeds(c) =>
            /\ countDown' # countDown
            /\ countDown' \notin {t.id : t \in timers}
            /\ timers' = {FreshTimer'}]_vars

\* a second isReadyOrError has succeeded while the timeout set by the first
\* was still pending, partly elapsed
C12_Witness ==
  /\ nTimers >= 3
  /\ lastFired = 0
  /\ timers = {FreshTimer}
  /\ \E c \in Callers : cpc[c] = "ok"

\* C13: the manager has at most one ApiPromise opened and not disconnected.
C13_AtMostOneLiveTransport == LiveApis <= 1

\* C14: a connect() call made while the ApiPromise in use is connected or
\* connecting opens no new one and keeps the one in use.
C14_ConnectIdempotent ==
  [][(connectCall /\ apis[cur].conn \in {"open", "connecting"}) =>
        (apis' = apis /\ cur' = cur)]_vars

\* ------------------------------------------------------- registry: claims
\* access a catches a rejection of isReadyOrError in this step
CatchesFailure(a) ==
  /\ rpc[a] = "checking"
  /\ nFails' = nFails + 1
  /\ <<rpc[a], rchk[a], rtries[a]>>' # <<rpc[a], rchk[a], rtries[a]>>

\* C15: when isReadyOrError of the memoized instance rejects during an
\* access, the factory is called once, the instance it builds is none of the
\* earlier ones, it becomes the memoized instance, and the access calls its
\* isReadyOrError and has returned nothing yet.
C15_FailureRebuildsAndRechecks ==
  [][\A a \in Accessors :
       CatchesFailure(a) =>
         /\ nInst' = nInst + 1
         /\ crust' \notin 0..nInst
         /\ crust' # rchk[a]
         /\ crust' = nInst'
         /\ rpc'[a] = "checking"
         /\ rchk'[a] = crust'
         /\ rret'[a] = 0]_vars

\* an access is checking the instance built after its first check failed
C15_Witness ==
  \E a \in Accessors :
    /\ rpc[a] = "checking"
    /\ rtries[a] = 2
    /\ rchk[a] = crust
    /\ crust = 2
    /\ nFails = 1

\* C16: the factory has been called once for the first access and once per
\* caught failure, the memoized instance is the latest one built, and an
\* access whose check succeeds calls no factory and returns the memoized
\* instance: the same one for all accesses between two failures.
C16_FactoryOnFirstAccessAndFailure ==
  /\ [](/\ nInst = nFails + (IF crust = 0 THEN 0 ELSE 1)
        /\ crust = nInst)
  /\ [][\A a \in Accessors :
          (rpc[a] = "checking" /\ rpc'[a] = "returned") =>
            /\ nInst' = nInst
            /\ crust' = crust
            /\ rret'[a] = crust
            /\ rret'[a] = nFails + 1]_vars

\* with no failure so far, a second access has returned the instance that
\* an earlier access built and returned
C16_Witness ==
  /\ nFails = 0
  /\ nInst = 1
  /\ rpc["x"] = "idle" /\ rret["x"] = 1
  /\ rpc["y"] = "returned" /\ rret["y"] = 1

\* C17: the instance an access returns is one whose isReadyOrError fulfilled
\* during that access.
C17_ReturnedInstanceWasChecked ==
  \A a \in Accessors : rret[a] # 0 => rret[a] \in rok[a]

\* C18: an access never ends with an error; every caught failure leads to a
\* new instance and another check; an access has returned exactly when one
\* of its checks has succeeded, and is still checking while all have failed.
C18_RetriesUntilSuccess ==
  /\ [](\A a \in Accessors :
          /\ rpc[a] \in {"idle", "cryptoWait", "checking", "returned"}
          /\ rpc[a] = "returned" => rok[a] # {}
          /\ rpc[a] = "checking" => (rok[a] = {} /\ rret[a] = 0)
          /\ rok[a] # {} => rret[a] # 0)
  /\ [][\A a \in Accessors :
          (rpc[a] = "checking" /\ rok'[a] = {}) =>
            (rpc'[a] = "checking" /\ rtries'[a] >= rtries[a])]_vars

\* an access has returned after every check but its last one failed, with as
\* many instances built as the bound allows
C18_Witness ==
  \E a \in Accessors :
    /\ rpc[a] = "returned"
    /\ rtries[a] = MaxInstances
    /\ nFails = MaxInstances - 1
    /\ rok[a] = {MaxInstances}

\* --------------------------------------------------------- facade: claims
\* C19: an operation touches the chain (builds, decodes, signs, queries or
\* broadcasts) only in the step that continues its successful
\* isReadyOrError; while it awaits readiness, and after readiness failed, it
\* has done none of these, and after a failure it is rejected with the error
\* isReadyOrError threw.
C19_ReadyBeforeChain ==
  /\ [](/\ pc \in {"awaitReady", "notReady"} => sendCalls = 0
        /\ pc = "notReady" => \E e \in ReadyErrors : result = Rejected(e)
        /\ fpc \in {"awaitReady", "notReady"} => chainOps = {}
        /\ fpc = "notReady" =>
             \E e \in ReadyErrors : fout = FacRejected(e))
  /\ [][/\ sendCalls' # sendCalls => pc = "awaitReady"
        /\ chainOps' # chainOps => fpc = "awaitReady" /\ fpc' = "done"]_vars

\* one operation was rejected by a readiness failure and has not touched
\* the chain, another has passed readiness and broadcast
C19_Witness ==
  /\ fop = "getOrderStatus"
  /\ fpc = "notReady"
  /\ chainOps = {}
  /\ fout.state = "rejected"
  /\ pc = "sent"
  /\ sendCalls = 1

\* C20: the extrinsic returned by getPlaceStorageOrderRaw decodes to a call
\* named placeStorageOrder on the given cid, with memo "folder" if the type
\* is "directory" and "" otherwise, and with size and tips as given, or 0
\* where omitted.
C20_PlaceStorageOrderPayload ==
  (fop = "getPlaceStorageOrderRaw" /\ fout.state = "resolved") =>
    LET call == getTx(fout.value)
        entry == fin.entry
    IN /\ call.method = "placeStorageOrder"
       /\ call.args[1] = JsString(entry.cid)
       /\ call.args[4] = JsString("folder") <=> entry.type = "directory"
       /\ entry.type # "directory" => call.args[4] = JsString("")
       /\ call.args[2] =
            (IF entry.size = JsUndefined THEN JsNumber("0") ELSE entry.size)
       /\ call.args[3] =
            (IF entry.tips = JsUndefined THEN JsNumber("0") ELSE entry.tips)

\* a directory entry without size and tips has been built
C20_Witness ==
  /\ fop = "getPlaceStorageOrderRaw"
  /\ fout.state = "resolved"
  /\ fin.entry.type = "directory"
  /\ fin.entry.size = JsUndefined
  /\ fin.entry.tips = JsUndefined
  /\ getTx(fout.value).args[4] = JsString("folder")

\* ------------------------------------------- submission: further claims
\* C21: for a place-order submission resolved by its first included update,
\* if the event list of that update contains a FileSuccess event, the
\* resolved cid is the last argument of a FileSuccess event of that list,
\* wherever the FileSuccess events stand relative to ExtrinsicSuccess.
C21_CidOfFileSuccessAnyOrder ==
  ( /\ op \in PlaceOps
    /\ firstIncluded # NoUpdate
    /\ HasExtrinsicSuccess(firstIncluded.events)
    /\ result.state = "resolved"
    /\ \E i \in 1..Len(firstIncluded.events) :
         firstIncluded.events[i].method = "FileSuccess" )
  => \E i \in 1..Len(firstIncluded.events), c \in Cids :
       /\ FileSuccessWith(firstIncluded.events, i, c)
       /\ result.cid = JsString(c)

\* ------------------------------------ connection manager: further claims
\* C22: the step in which an isReadyOrError call fails leaves the pending
\* timeout as it is (not cancelled, not rescheduled); a call whose awaited
\* readiness promise is rejected fails; and the timeout is rescheduled only
\* in a step in which some isReadyOrError call succeeds.
C22_TimerKeptOnFailure ==
  [][/\ \A c \in Callers :
          (cpc[c] # "failed" /\ cpc'[c] = "failed") =>
            (timers' = timers /\ countDown' = countDown
               /\ nTimers' = nTimers)
     /\ \A c \in Callers :
          ( /\ cpc[c] \in {"awaitConnect", "awaitReady"}
            /\ apis[capi[c]].ready = "err"
            /\ cpc'[c] # cpc[c] ) => cpc'[c] = "failed"
     /\ (countDown' # countDown \/ nTimers' # nTimers) =>
          \E c \in Callers : ReadySucceeds(c)]_vars

\* an isReadyOrError call has failed while the timeout set by an earlier
\* success is pending, partly elapsed
C22_Witness ==
  /\ \E c \in Callers : cpc[c] = "failed"
  /\ nTimers >= 2
  /\ timers = {[id |-> countDown, left |-> TickSec]}

\* the submission has been broadcast on a connected ApiPromise and its
\* result is neither resolved nor rejected
BroadcastPending ==
  /\ pc = "sent"
  /\ sendCalls = 1
  /\ result.state = "pending"
  /\ txApi # 0
  /\ apis[txApi].conn = "open"

\* C23: while a submission broadcast on an ApiPromise is pending, a timeout
\* that fires does not disconnect that ApiPromise.
C23_NoIdleDisconnectWhilePending ==
  [][(BroadcastPending /\ lastFired' # lastFired) =>
        apis'[txApi].conn = "open"]_vars

====
